---- MODULE Spec2Model ----
(***************************************************************************)
(* Model of the artwork materials n-gram analyzer                          *)
(* (src/lib/artwork-materials-ngram-analyzer.ts, both variants of the     *)
(* class), of the AAT vocabulary matcher (src/unnamed/part_000) and of    *)
(* the analysis script's run for one category (src/unnamed/part_001 and   *)
(* part_002).  Spec is the analyzer, SpecMatch the matcher, SpecRun the    *)
(* script's run.                                                           *)
(*                                                                         *)
(* Texts (JavaScript strings) are sequences of chunks: a chunk is a word,  *)
(* a single blank " " or a punctuation mark.  Two texts are equal iff      *)
(* their chunk sequences are equal; every constant below has its words     *)
(* separated by a separator chunk, so the representation is canonical.     *)
(***************************************************************************)
EXTENDS Integers, Sequences, FiniteSets, TLC

\* ------------------------------------------------------------------ bounds
MaxDocs == 3      \* records the source stream delivers at most
MaxN == 3         \* largest n asked of getTopNgrams
MaxFloor == 3     \* largest minFrequency asked of getTopNgrams
ThetaDen == 4     \* thresholds are the fractions k/ThetaDen, k in 0..ThetaDen
MaxBatch == 2     \* n-grams handed to matchNgramsToAatSubjects at most

\* ------------------------------------------------- JavaScript values
\* A property value as the runtime holds it: undefined, a number, a string
\* (a sequence of chunks) or a function object.
Undefined == [kind |-> "undefined", num |-> 0, str |-> <<>>]
Num(k) == [kind |-> "number", num |-> k, str |-> <<>>]
Str(s) == [kind |-> "string", num |-> 0, str |-> s]
FunctionObject == [kind |-> "function", num |-> 0, str |-> <<>>]

\* String(Object): what the Object constructor function converts to
FunctionSource == <<"function Object() { [native code] }">>

Digit(d) == <<"0", "1", "2", "3", "4", "5", "6", "7", "8", "9">>[d + 1]

RECURSIVE NumToStr(_)
\* String(k) for a non-negative integer k, one chunk per digit
NumToStr(k) == IF k < 10 THEN <<Digit(k)>>
               ELSE NumToStr(k \div 10) \o <<Digit(k % 10)>>

\* ToBoolean(v)
Truthy(v) == CASE v.kind = "undefined" -> FALSE
               [] v.kind = "number" -> v.num # 0
               [] v.kind = "string" -> v.str # <<>>
               [] OTHER -> TRUE

\* ToString(v)
ToStr(v) == CASE v.kind = "number" -> NumToStr(v.num)
              [] v.kind = "string" -> v.str
              [] v.kind = "function" -> FunctionSource
              [] OTHER -> <<"undefined">>

\* v + w: numeric addition of two numbers, string concatenation as soon as
\* one operand is a string or an object
JsPlus(v, w) == IF v.kind = "number" /\ w.kind = "number"
                THEN Num(v.num + w.num)
                ELSE Str(ToStr(v) \o ToStr(w))

\* v > k and v >= k for a number k: a string that is not a numeral converts
\* to NaN, and every comparison with NaN is false
JsGreater(v, k) == v.kind = "number" /\ v.num > k
JsGreaterEq(v, k) == v.kind = "number" /\ v.num >= k

\* --------------------------------------------------------- the source data
NoCategory == "(none)"     \* options.category left undefined / null

BlankChunk == " "
Separators == {" ", ",", "."}

\* String.prototype.toLowerCase on one chunk
LowerChunk(c) == CASE c = "Oil" -> "oil"
                   [] c = "Acrylic" -> "acrylic"
                   [] c = "Bronze" -> "bronze"
                   [] c = "Paint" -> "paint"
                   [] c = "Gold" -> "gold"
                   [] c = "Leaf" -> "leaf"
                   [] c = "Pencil" -> "pencil"
                   [] OTHER -> c

toLowerCase(txt) == [i \in 1..Len(txt) |-> LowerChunk(txt[i])]

\* The records a source file may hold (Artwork, src/types.ts).  hasMedium
\* is FALSE for a record without a medium field.
Artwork(m, c) == [hasMedium |-> TRUE, medium |-> m, category |-> c]
WithoutMedium(c) == [hasMedium |-> FALSE, medium |-> <<>>, category |-> c]

DataFiles == {"data/paintings.json", "data/studio.json"}

Records(path) ==
  IF path = "data/paintings.json"
  THEN { Artwork(<<"Oil", " ", "on", " ", "canvas", ".">>, "Painting"),
         Artwork(<<"oil", " ", "on", " ", "board">>, "Painting"),
         Artwork(<<"Acrylic", " ", "on", " ", "canvas">>, "Painting"),
         Artwork(<<"24", ".">>, "Sculpture"),
         Artwork(<<>>, "Painting") }
  ELSE IF path = "data/studio.json"
  THEN { Artwork(<<"Oil">>, "Painting"),
         Artwork(<<"oil", ",", " ", "constructor">>, "Painting"),
         Artwork(<<"constructor", " ", "on">>, "Sculpture"),
         WithoutMedium("Painting") }
  ELSE { Artwork(<<"Oil", " ", "paint">>, "Painting") }

\* the file the analysis script reads
ScriptDataFile == "data/production.json"

CategoryFilters == {NoCategory, "Painting"}

\* --------------------------------------------------------------- state
VARIABLES
  pathToData,              \* this.pathToData
  category,                \* this.category
  stream,                  \* the records the read stream has delivered so far
  tokenizedDocuments,      \* this.tokenizedDocuments
  numDocuments,            \* this.numDocuments (-1 while undefined)
  phase,                   \* where create() is: "counting" (awaiting getLineCount),
                           \* "loading" (reading the stream), "ended" (load resolved),
                           \* "ready" (create resolved), "rejected" (create rejected),
                           \* "crashed" (uncaught exception, the promise left pending)
  failure,                 \* the failure the load met: "none", "wc", "open" or "parse"
  op,                      \* the last getTopNgrams variant called
  n,                       \* its argument n
  arg,                     \* its second argument: minFrequency, or the numerator of
                           \* the threshold arg / argDen
  argDen,                  \* the denominator of the threshold (1 for a minFrequency)
  allNgrams,               \* its local allNgrams
  tally,                   \* its local tally
  sortedNgramFrequencies,  \* its local sortedNgramFrequencies
  topNgramFrequencies,     \* the list it returned
  batch,                   \* the argument ngrams of matchNgramsToAatSubjects
  searchCalls,             \* per n-gram, the client.search calls issued for it
  responses,               \* per n-gram, how its client.search call settled
  topHitPromises,          \* per n-gram, the promise findTopHit returned
  examined,                \* per n-gram, the hits findTopHit classified
  completionOrder,         \* the indices in the order their searches settled
  matchState,              \* the promise matchNgramsToAatSubjects returned
  output,                  \* the list it resolved with
  runPhase,                \* the script's run for one category: "idle" (no run),
                           \* "creating" (awaiting create), "matching" (awaiting
                           \* matchNgramsToAatSubjects), "done", "failed" (catch ran)
  runVariant,              \* the script that runs: "minFrequency" or "coverage"
  csvFiles                 \* the CSV files written so far, in order

analyzerVars == <<pathToData, category, stream, tokenizedDocuments, numDocuments, phase,
                  failure, op, n, arg, argDen, allNgrams, tally, sortedNgramFrequencies,
                  topNgramFrequencies>>
matcherVars == <<batch, searchCalls, responses, topHitPromises, examined, completionOrder,
                 matchState, output>>
runVars == <<runPhase, runVariant, csvFiles>>
vars == <<analyzerVars, matcherVars, runVars>>

corpusVars == <<pathToData, category, stream, tokenizedDocuments, numDocuments, phase, failure>>
callVars == <<op, n, arg, argDen, allNgrams, tally, sortedNgramFrequencies,
              topNgramFrequencies>>

\* ------------------------------------------------------------ tokenizing
\* WordTokenizer.tokenize: split on the non-word characters, drop the empties
tokenize(txt) == SelectSeq(txt, LAMBDA c : c \notin Separators)

\* getTokensFromArtwork with stem = false (the only setting the callers use)
getTokensFromArtwork(artwork) == tokenize(toLowerCase(artwork.medium))

\* the isUseable test of the "data" handler
isUseable(artwork, cat) ==
  /\ artwork.hasMedium
  /\ artwork.medium # <<>>
  /\ (cat = NoCategory \/ artwork.category = cat)

\* ------------------------------------------------------------ extraction
Max(a, b) == IF a >= b THEN a ELSE b

\* A window count that is one short: the last offset of every document is lost
ngramsDropLast(document, k) ==
  [i \in 1..Max(0, Len(document) - k) |-> SubSeq(document, i, i + k - 1)]

\* NGrams.ngrams(document, k) of the natural library, without padding symbols
ngrams(document, k) ==
  [i \in 1..Max(0, Len(document) - k + 1) |-> SubSeq(document, i, i + k - 1)]

RECURSIVE getAllNgramsFrom(_, _, _)
getAllNgramsFrom(docs, d, k) ==
  IF d > Len(docs) THEN <<>>
  ELSE ngrams(docs[d], k) \o getAllNgramsFrom(docs, d + 1, k)

getAllNgrams(docs, k) == getAllNgramsFrom(docs, 1, k)

\* ---------------------------------------------------------------- tally
\* Array.prototype.join(" ")
RECURSIVE join(_)
join(ngram) == IF Len(ngram) = 0 THEN <<>>
               ELSE IF Len(ngram) = 1 THEN <<ngram[1]>>
               ELSE <<ngram[1], BlankChunk>> \o join(Tail(ngram))

\* The lower-case property names every object literal inherits from
\* Object.prototype, and that a word token can spell.
ObjectPrototypeKeys == { <<"constructor">> }

\* A tally is the object literal {} plus its own properties, kept as the
\* sequence of [ngram, count] entries in the order the properties were created.
HasOwn(t, key) == \E i \in 1..Len(t) : t[i].ngram = key
OwnIndex(t, key) == CHOOSE i \in 1..Len(t) : t[i].ngram = key

\* tally[key]: an own property, else one inherited from Object.prototype
JsGet(t, key) == IF HasOwn(t, key) THEN t[OwnIndex(t, key)].count
                 ELSE IF key \in ObjectPrototypeKeys THEN FunctionObject
                 ELSE Undefined

\* tally[key] = value
JsSet(t, key, value) ==
  IF HasOwn(t, key)
  THEN [t EXCEPT ![OwnIndex(t, key)] = [ngram |-> key, count |-> value]]
  ELSE Append(t, [ngram |-> key, count |-> value])

\* one step of the forEach of getTallyOfNgrams
TallyStep(t, ngram) ==
  LET ngramString == join(ngram)
      old == JsGet(t, ngramString)
  IN JsSet(t, ngramString, IF Truthy(old) THEN JsPlus(old, Num(1)) ELSE Num(1))

RECURSIVE getTallyFrom(_, _, _)
getTallyFrom(t, list, i) ==
  IF i > Len(list) THEN t
  ELSE getTallyFrom(TallyStep(t, list[i]), list, i + 1)

getTallyOfNgrams(list) == getTallyFrom(<<>>, list, 1)

\* ------------------------------------------------- sorting the tally
\* Property names that are canonical array indices: Object.keys lists them
\* first, in ascending numeric order, before the other names.
IntegerWords == {"24"}
IntegerValue(w) == CASE w = "24" -> 24 [] OTHER -> 0
IsArrayIndex(key) == Len(key) = 1 /\ key[1] \in IntegerWords

\* lodash toPairs(tally): the own enumerable properties in Object.keys order
toPairs(t) ==
  LET intIdx == {i \in 1..Len(t) : IsArrayIndex(t[i].ngram)}
      val(i) == IntegerValue(t[i].ngram[1])
      rank(i) == 1 + Cardinality({j \in intIdx : val(j) < val(i)})
      ints == [p \in 1..Cardinality(intIdx) |-> t[CHOOSE i \in intIdx : rank(i) = p]]
  IN ints \o SelectSeq(t, LAMBDA e : ~IsArrayIndex(e.ngram))

\* the .map of getSortedNgramFrequencies
frequenciesOf(t) ==
  LET pairs == toPairs(t)
  IN [i \in 1..Len(pairs) |-> [ngram |-> pairs[i].ngram, frequency |-> pairs[i].count]]

\* lodash compareAscending on two frequency values: -1, 0 or 1.  A number
\* against a non-numeral string is neither greater nor smaller (NaN).
compareAscending(v, w) ==
  IF v.kind = "number" /\ w.kind = "number"
  THEN (IF v.num > w.num THEN 1 ELSE IF v.num < w.num THEN -1 ELSE 0)
  ELSE 0

\* lodash compareMultiple with the single criterion "frequency": the
\* criterion decides, and the original index breaks a tie
ComesBefore(fs, i, j) ==
  LET c == compareAscending(fs[i].frequency, fs[j].frequency)
  IN IF c # 0 THEN c < 0 ELSE i < j

IndexPermutations(k) == {p \in [1..k -> 1..k] : \A i, j \in 1..k : p[i] = p[j] => i = j}

\* lodash sortBy(frequencies, "frequency"): Array.prototype.sort under the
\* comparator above.  When the comparator is a consistent total order the
\* result is the one sorted sequence; when it is not (a string frequency
\* lies between two numbers that are out of order) the order of the result
\* is implementation-defined, any permutation.
SortByOutcomes(fs) ==
  LET k == Len(fs)
      rank(i) == 1 + Cardinality({j \in 1..k : j # i /\ ComesBefore(fs, j, i)})
      consistent == \A i, j \in 1..k : rank(i) = rank(j) => i = j
  IN IF consistent
     THEN { [p \in 1..k |-> fs[CHOOSE i \in 1..k : rank(i) = p]] }
     ELSE { [p \in 1..k |-> fs[perm[p]]] : perm \in IndexPermutations(k) }

\* lodash reverse
reverse(s) == [i \in 1..Len(s) |-> s[Len(s) + 1 - i]]

\* getSortedNgramFrequencies(tally): every list the call can return
getSortedNgramFrequencies(t) == { reverse(s) : s \in SortByOutcomes(frequenciesOf(t)) }

\* ------------------------------------------------------------- selection
\* sortedNgramFrequencies.filter(nf => nf.frequency >= minFrequency)
filterMinFrequency(sorted, minFrequency) ==
  SelectSeq(sorted, LAMBDA nf : JsGreaterEq(nf.frequency, minFrequency))

\* The share still to be covered is taken for the share to cover
desiredTotalFrequencyOfRemainder(num, den, totalNgramCount) ==
  ((den - num) * totalNgramCount) \div den

\* Math.trunc(threshold * totalNgramCount) for threshold = num / den.  For
\* the thresholds and totals of the model the floating-point product
\* truncates to the integer quotient.
desiredTotalFrequencyOf(num, den, totalNgramCount) == (num * totalNgramCount) \div den

RECURSIVE takeWhileCoverage(_, _, _, _)
\* lodash takeWhile with the predicate of the coverage variant: the number of
\* leading entries taken, frequencySoFar being the predicate's captured sum
takeWhileCoverage(sorted, i, frequencySoFar, desiredTotalFrequency) ==
  IF i > Len(sorted) THEN Len(sorted)
  ELSE IF JsGreater(frequencySoFar, desiredTotalFrequency) THEN i - 1
  ELSE takeWhileCoverage(sorted, i + 1, JsPlus(frequencySoFar, sorted[i].frequency),
                         desiredTotalFrequency)

coverageSelect(sorted, desiredTotalFrequency) ==
  SubSeq(sorted, 1, takeWhileCoverage(sorted, 1, Num(0), desiredTotalFrequency))

\* ---------------------------------------------------------------- actions
MatcherIdle ==
  /\ batch = <<>>
  /\ searchCalls = <<>>
  /\ responses = <<>>
  /\ topHitPromises = <<>>
  /\ examined = <<>>
  /\ completionOrder = <<>>
  /\ matchState = "idle"
  /\ output = <<>>

RunIdle ==
  /\ runPhase = "idle"
  /\ runVariant = "none"
  /\ csvFiles = <<>>

Init ==
  /\ MatcherIdle
  /\ RunIdle
  /\ pathToData \in DataFiles
  /\ category \in CategoryFilters
  /\ stream = <<>>
  /\ tokenizedDocuments = <<>>
  /\ numDocuments = -1
  /\ phase = "counting"
  /\ failure = "none"
  /\ op = "none"
  /\ n = 0
  /\ arg = 0
  /\ argDen = 1
  /\ allNgrams = <<>>
  /\ tally = <<>>
  /\ sortedNgramFrequencies = <<>>
  /\ topNgramFrequencies = <<>>

\* getLineCount resolves: load builds the progress bar and opens the stream
LineCountResolves ==
  /\ phase = "counting"
  /\ phase' = "loading"
  /\ UNCHANGED <<pathToData, category, stream, tokenizedDocuments, numDocuments, failure,
                 callVars, matcherVars, runVars>>

\* getLineCount rejects (wc cannot read the source): the await in load
\* throws, load rejects, the await in create throws and create rejects
LineCountRejects ==
  /\ phase = "counting"
  /\ failure' = "wc"
  /\ phase' = "rejected"
  /\ UNCHANGED <<pathToData, category, stream, tokenizedDocuments, numDocuments,
                 callVars, matcherVars, runVars>>

\* The read stream or the ndjson parser emits "error": the source cannot be
\* opened after all (before any record) or a row is not valid JSON.  No
\* "error" listener is attached, so the event is thrown as an uncaught
\* exception; neither resolve nor reject of load is ever called.
StreamError(kind) ==
  /\ phase = "loading"
  /\ kind = "open" => stream = <<>>
  /\ failure' = kind
  /\ phase' = "crashed"
  /\ UNCHANGED <<pathToData, category, stream, tokenizedDocuments, numDocuments,
                 callVars, matcherVars, runVars>>

\* A data handler that ignores the category filter
OnDataAnyCategory(artwork) ==
  /\ phase = "loading"
  /\ Len(stream) < MaxDocs
  /\ stream' = Append(stream, artwork)
  /\ tokenizedDocuments' =
       IF isUseable(artwork, NoCategory)
       THEN Append(tokenizedDocuments, getTokensFromArtwork(artwork))
       ELSE tokenizedDocuments
  /\ UNCHANGED <<pathToData, category, numDocuments, phase, failure, callVars, matcherVars, runVars>>

\* the "data" handler of load
OnData(artwork) ==
  /\ phase = "loading"
  /\ Len(stream) < MaxDocs
  /\ stream' = Append(stream, artwork)
  /\ tokenizedDocuments' =
       IF isUseable(artwork, category)
       THEN Append(tokenizedDocuments, getTokensFromArtwork(artwork))
       ELSE tokenizedDocuments
  /\ UNCHANGED <<pathToData, category, numDocuments, phase, failure, callVars, matcherVars, runVars>>

\* the "end" handler of load: numDocuments is set and load resolves
OnEnd ==
  /\ phase = "loading"
  /\ numDocuments' = Len(tokenizedDocuments)
  /\ phase' = "ended"
  /\ UNCHANGED <<pathToData, category, stream, tokenizedDocuments, failure, callVars,
                 matcherVars, runVars>>

\* create resolves although load has not resolved (the await is missing)
CreateResolvesWithoutAwait ==
  /\ phase \in {"loading", "ended"}
  /\ phase' = "ready"
  /\ UNCHANGED <<pathToData, category, stream, tokenizedDocuments, numDocuments, failure,
                 callVars, matcherVars, runVars>>

\* the rest of create after await analyzer.load(): it resolves with the analyzer
CreateResolves ==
  /\ phase = "ended"
  /\ phase' = "ready"
  /\ UNCHANGED <<pathToData, category, stream, tokenizedDocuments, numDocuments, failure,
                 callVars, matcherVars, runVars>>

\* A getTopNgrams that takes the documents out of the corpus as it reads them
GetTopNgramsMinFrequencyConsuming(k, minFrequency) ==
  /\ phase = "ready"
  /\ op = "none" \/ (op = "minFrequency" /\ n = k /\ arg = minFrequency)
  /\ LET all == getAllNgrams(tokenizedDocuments, k)
         t == getTallyOfNgrams(all)
     IN \E sorted \in getSortedNgramFrequencies(t) :
          /\ op # "none" /\ tally = t => sorted = sortedNgramFrequencies
          /\ op' = "minFrequency"
          /\ n' = k
          /\ arg' = minFrequency
          /\ argDen' = 1
          /\ allNgrams' = all
          /\ tally' = t
          /\ sortedNgramFrequencies' = sorted
          /\ topNgramFrequencies' = filterMinFrequency(sorted, minFrequency)
  /\ tokenizedDocuments' = <<>>
  /\ UNCHANGED <<pathToData, category, stream, numDocuments, phase, failure, matcherVars, runVars>>

\* getTopNgrams(k, minFrequency) of the minimum-frequency variant.  A call is
\* made on an idle analyzer or repeats the call just made; the engine's sort
\* is a function, so a repeated call sorts the same tally the same way.
GetTopNgramsMinFrequency(k, minFrequency) ==
  /\ phase = "ready"
  /\ op = "none" \/ (op = "minFrequency" /\ n = k /\ arg = minFrequency)
  /\ LET all == getAllNgrams(tokenizedDocuments, k)
         t == getTallyOfNgrams(all)
     IN \E sorted \in getSortedNgramFrequencies(t) :
          /\ op # "none" /\ tally = t => sorted = sortedNgramFrequencies
          /\ op' = "minFrequency"
          /\ n' = k
          /\ arg' = minFrequency
          /\ argDen' = 1
          /\ allNgrams' = all
          /\ tally' = t
          /\ sortedNgramFrequencies' = sorted
          /\ topNgramFrequencies' = filterMinFrequency(sorted, minFrequency)
  /\ UNCHANGED <<corpusVars, matcherVars, runVars>>

\* getTopNgrams(k, threshold) of the coverage variant, threshold = num / den
GetTopNgramsCoverage(k, num, den) ==
  /\ phase = "ready"
  /\ op = "none" \/ (op = "coverage" /\ n = k /\ arg = num /\ argDen = den)
  /\ LET all == getAllNgrams(tokenizedDocuments, k)
         t == getTallyOfNgrams(all)
     IN \E sorted \in getSortedNgramFrequencies(t) :
          /\ op # "none" /\ tally = t => sorted = sortedNgramFrequencies
          /\ op' = "coverage"
          /\ n' = k
          /\ arg' = num
          /\ argDen' = den
          /\ allNgrams' = all
          /\ tally' = t
          /\ sortedNgramFrequencies' = sorted
          /\ topNgramFrequencies' =
               coverageSelect(sorted, desiredTotalFrequencyOf(num, den, Len(all)))
  /\ UNCHANGED <<corpusVars, matcherVars, runVars>>

\* minFrequency ?? 0
NullishOr(v, default) == IF v.kind = "undefined" THEN default ELSE v.num

\* the convenience methods of the minimum-frequency variant
GetTopUnigramsMinFrequency(minFrequency) ==
  GetTopNgramsMinFrequency(1, NullishOr(minFrequency, 0))

GetTopBigramsMinFrequency(minFrequency) ==
  GetTopNgramsMinFrequency(2, NullishOr(minFrequency, 0))

GetTopTrigramsMinFrequency(minFrequency) ==
  GetTopNgramsMinFrequency(3, NullishOr(minFrequency, 0))

GetTopTetragramsMinFrequency(minFrequency) ==
  GetTopNgramsMinFrequency(4, NullishOr(minFrequency, 0))

\* the default thresholds 0.8, 0.6, 0.4 and 0.2 of the coverage variant's
\* convenience methods, as numerator and denominator
DefaultThresholds == << <<8, 10>>, <<6, 10>>, <<4, 10>>, <<2, 10>> >>

\* getTopNgrams(k, threshold ?? default), an explicit threshold being
\* threshold / ThetaDen
GetTopNgramsCoverageOrDefault(k, threshold) ==
  IF threshold.kind = "undefined"
  THEN GetTopNgramsCoverage(k, DefaultThresholds[k][1], DefaultThresholds[k][2])
  ELSE GetTopNgramsCoverage(k, threshold.num, ThetaDen)

\* the convenience methods of the coverage variant
GetTopUnigramsCoverage(threshold) == GetTopNgramsCoverageOrDefault(1, threshold)

GetTopBigramsCoverage(threshold) == GetTopNgramsCoverageOrDefault(2, threshold)

GetTopTrigramsCoverage(threshold) == GetTopNgramsCoverageOrDefault(3, threshold)

GetTopTetragramsCoverage(threshold) == GetTopNgramsCoverageOrDefault(4, threshold)

\* the optional argument of a convenience method: left out, or the largest
\* value getTopNgrams is asked with
OptionalMinFrequency == {Undefined, Num(MaxFloor)}
OptionalThreshold == {Undefined, Num(ThetaDen)}

\* the caller is done with the returned list: the locals of the call are gone
\* and the analyzer can be asked again
DropResult ==
  /\ op # "none"
  /\ op' = "none"
  /\ n' = 0
  /\ arg' = 0
  /\ argDen' = 1
  /\ allNgrams' = <<>>
  /\ tally' = <<>>
  /\ sortedNgramFrequencies' = <<>>
  /\ topNgramFrequencies' = <<>>
  /\ UNCHANGED <<corpusVars, matcherVars, runVars>>

Next ==
  \/ \E artwork \in Records(pathToData) : OnData(artwork)
  \/ LineCountResolves
  \/ LineCountRejects
  \/ \E kind \in {"open", "parse"} : StreamError(kind)
  \/ OnEnd
  \/ CreateResolves
  \/ DropResult
  \/ \E k \in 1..MaxN, minFrequency \in 0..MaxFloor : GetTopNgramsMinFrequency(k, minFrequency)
  \/ \E k \in 1..MaxN, num \in 0..ThetaDen : GetTopNgramsCoverage(k, num, ThetaDen)
  \/ \E minFrequency \in OptionalMinFrequency : GetTopUnigramsMinFrequency(minFrequency)
  \/ \E minFrequency \in OptionalMinFrequency : GetTopBigramsMinFrequency(minFrequency)
  \/ \E minFrequency \in OptionalMinFrequency : GetTopTrigramsMinFrequency(minFrequency)
  \/ \E minFrequency \in OptionalMinFrequency : GetTopTetragramsMinFrequency(minFrequency)
  \/ \E threshold \in OptionalThreshold : GetTopUnigramsCoverage(threshold)
  \/ \E threshold \in OptionalThreshold : GetTopBigramsCoverage(threshold)
  \/ \E threshold \in OptionalThreshold : GetTopTrigramsCoverage(threshold)
  \/ \E threshold \in OptionalThreshold : GetTopTetragramsCoverage(threshold)

Spec == Init /\ [][Next]_vars


\* ------------------------------------------------- vocabulary matcher
SearchSize == 5     \* the size findTopHit asks of matchAatSubjects

Subject(id, name, terms, facet, type) ==
  [_id |-> id,
   _source |-> [name |-> name, terms |-> terms, facet_name |-> facet, record_type |-> type]]

\* the subjects the search index holds (Hit<AatSubject>, src/types.ts)
OilPaint ==
  Subject("300015050", <<"Oil", " ", "Paint", " ">>,
          << <<"oil", " ", "paint">>, <<"oil", " ", "colour">> >>, "Materials", "Concept")
GoldFoil ==
  Subject("300264831", <<"gold", " ", "foil">>,
          << <<" ", "Gold", " ", "Leaf">> >>, "Materials", "Concept")
PaintSubject ==
  Subject("300015029", <<"paint">>,
          << <<"oil", " ", "paint">>, <<"pigment">> >>, "Materials", "Guide Term")

AatIndex == {OilPaint, GoldFoil, PaintSubject}

NoHit == Subject("", <<>>, <<>>, "", "")

Min(a, b) == IF a <= b THEN a ELSE b

\* the ranked candidate lists a search may return: distinct subjects, at most
\* the requested size
HitLists ==
  { h \in UNION { [1..k -> AatIndex] : k \in 0..Min(SearchSize, Cardinality(AatIndex)) } :
      \A i, j \in 1..Len(h) : h[i] = h[j] => i = j }

\* how one client.search call can settle: it throws, it returns a non-200
\* result whose body is an error document, or it returns 200 with a hit list
Pending == [kind |-> "pending", statusCode |-> 0, hasHits |-> FALSE, hits |-> <<>>]
SearchOutcomes ==
  { [kind |-> "throws", statusCode |-> 0, hasHits |-> FALSE, hits |-> <<>>],
    [kind |-> "returns", statusCode |-> 503, hasHits |-> FALSE, hits |-> <<>>] }
  \cup { [kind |-> "returns", statusCode |-> 200, hasHits |-> TRUE, hits |-> h] : h \in HitLists }

Queries == { <<"oil", " ", "paint">>, <<"Gold", " ", "leaf">> }

NgramFrequencies == { [ngram |-> q, frequency |-> Num(2)] : q \in Queries }

Batches == UNION { [1..k -> NgramFrequencies] : k \in 0..MaxBatch }

RECURSIVE trimStart(_)
trimStart(txt) == IF txt # <<>> /\ Head(txt) = BlankChunk THEN trimStart(Tail(txt)) ELSE txt

RECURSIVE trimEnd(_)
trimEnd(txt) == IF txt # <<>> /\ txt[Len(txt)] = BlankChunk
                THEN trimEnd(SubSeq(txt, 1, Len(txt) - 1)) ELSE txt

\* String.prototype.trim
trim(txt) == trimEnd(trimStart(txt))

normalize(txt) == toLowerCase(trim(txt))

\* An entry is exact as soon as the term is its name or one of its terms
getMatchQualityLoose(term, aatHit) ==
  LET t == normalize(term)
      aatName == normalize(aatHit._source.name)
      aatTerms == [i \in 1..Len(aatHit._source.terms) |-> normalize(aatHit._source.terms[i])]
  IN IF t = aatName \/ \E i \in 1..Len(aatTerms) : aatTerms[i] = t THEN "exact"
     ELSE "none"

\* The alternate terms are tested before the preferred name
getMatchQualityTermsFirst(term, aatHit) ==
  LET t == normalize(term)
      aatName == normalize(aatHit._source.name)
      aatTerms == [i \in 1..Len(aatHit._source.terms) |-> normalize(aatHit._source.terms[i])]
  IN IF \E i \in 1..Len(aatTerms) : aatTerms[i] = t THEN "synonym"
     ELSE IF t = aatName THEN "exact"
     ELSE "none"

\* getMatchQuality(term, aatHit) for a hit of the list (always an object)
getMatchQuality(term, aatHit) ==
  LET t == normalize(term)
      aatName == normalize(aatHit._source.name)
      aatTerms == [i \in 1..Len(aatHit._source.terms) |-> normalize(aatHit._source.terms[i])]
  IN IF t = aatName THEN "exact"
     ELSE IF \E i \in 1..Len(aatTerms) : aatTerms[i] = t THEN "synonym"
     ELSE "none"

\* what matchAatSubjects returns to findTopHit: undefined after a caught
\* error, else result.body whatever the status code is
matchAatSubjects(outcome) ==
  IF outcome.kind = "throws"
  THEN [defined |-> FALSE, hasHits |-> FALSE, hits |-> <<>>]
  ELSE [defined |-> TRUE, hasHits |-> outcome.hasHits, hits |-> outcome.hits]

NoTopHit == [defined |-> FALSE, hit |-> NoHit, matchQuality |-> ""]
TopHit(hit, quality) == [defined |-> TRUE, hit |-> hit, matchQuality |-> quality]

\* The scan looks for an exact hit at any rank before it accepts a synonym
scanHitsPreferExact(term, hits, i) ==
  LET exacts == {j \in 1..Len(hits) : getMatchQuality(term, hits[j]) = "exact"}
      synonyms == {j \in 1..Len(hits) : getMatchQuality(term, hits[j]) = "synonym"}
      first(S) == CHOOSE j \in S : \A k \in S : j <= k
  IN IF exacts # {}
     THEN [value |-> TopHit(hits[first(exacts)], "exact"), examined |-> Len(hits)]
     ELSE IF synonyms # {}
     THEN [value |-> TopHit(hits[first(synonyms)], "synonym"), examined |-> Len(hits)]
     ELSE [value |-> NoTopHit, examined |-> Len(hits)]

RECURSIVE scanHits(_, _, _)
\* the for loop of findTopHit from index i on: the value returned and the
\* number of hits classified
scanHits(term, hits, i) ==
  IF i > Len(hits) THEN [value |-> NoTopHit, examined |-> Len(hits)]
  ELSE IF getMatchQuality(term, hits[i]) = "exact"
       THEN [value |-> TopHit(hits[i], "exact"), examined |-> i]
  ELSE IF getMatchQuality(term, hits[i]) = "synonym"
       THEN [value |-> TopHit(hits[i], "synonym"), examined |-> i]
  ELSE scanHits(term, hits, i + 1)

PendingPromise == [state |-> "pending", value |-> NoTopHit]

\* the rest of findTopHit once the search has settled: reading
\* response.hits.hits throws a TypeError when the response or its hits
\* property is undefined, and the promise is rejected
findTopHit(nf, outcome) ==
  LET response == matchAatSubjects(outcome)
  IN IF ~response.defined \/ ~response.hasHits
     THEN [promise |-> [state |-> "rejected", value |-> NoTopHit], examined |-> 0]
     ELSE LET scan == scanHits(nf.ngram, response.hits, 1)
          IN [promise |-> [state |-> "fulfilled", value |-> scan.value],
              examined |-> scan.examined]

\* hit && { aatName, aatId, facetName, recordType, matchQuality }
aatMatchOf(topHit) ==
  IF topHit.defined
  THEN [defined |-> TRUE,
        aatName |-> topHit.hit._source.name,
        aatId |-> topHit.hit._id,
        facetName |-> topHit.hit._source.facet_name,
        recordType |-> topHit.hit._source.record_type,
        matchQuality |-> topHit.matchQuality]
  ELSE [defined |-> FALSE, aatName |-> <<>>, aatId |-> "", facetName |-> "",
        recordType |-> "", matchQuality |-> ""]

\* The pairs are filled with the hits in the order the searches settled
pairWithHitsByCompletion(ngramsArg, topHits) ==
  [i \in 1..Len(topHits) |->
     [ngram |-> ngramsArg[i], aatMatch |-> aatMatchOf(topHits[completionOrder'[i]])]]

\* topHits.map((hit, i) => [ngrams[i], aatMatch])
pairWithHits(ngramsArg, topHits) ==
  [i \in 1..Len(topHits) |-> [ngram |-> ngramsArg[i], aatMatch |-> aatMatchOf(topHits[i])]]

\* Promise.all over the promises: rejected as soon as one is, fulfilled once
\* all are, pending otherwise
promiseAll(promises) ==
  IF \E i \in 1..Len(promises) : promises[i].state = "rejected" THEN "rejected"
  ELSE IF \A i \in 1..Len(promises) : promises[i].state = "fulfilled" THEN "fulfilled"
  ELSE "pending"

valuesOf(promises) == [i \in 1..Len(promises) |-> promises[i].value]

InitMatch ==
  /\ MatcherIdle
  /\ RunIdle
  /\ pathToData = "data/paintings.json"
  /\ category = NoCategory
  /\ stream = <<>>
  /\ tokenizedDocuments = <<>>
  /\ numDocuments = -1
  /\ phase = "counting"
  /\ failure = "none"
  /\ op = "none"
  /\ n = 0
  /\ arg = 0
  /\ argDen = 1
  /\ allNgrams = <<>>
  /\ tally = <<>>
  /\ sortedNgramFrequencies = <<>>
  /\ topNgramFrequencies = <<>>

\* matchNgramsToAatSubjects(b) up to its await: every findTopHit has issued
\* its search; an empty batch resolves at once
MatchNgramsToAatSubjects(b) ==
  /\ matchState = "idle"
  /\ batch' = b
  /\ searchCalls' = [i \in 1..Len(b) |-> 1]
  /\ responses' = [i \in 1..Len(b) |-> Pending]
  /\ topHitPromises' = [i \in 1..Len(b) |-> PendingPromise]
  /\ examined' = [i \in 1..Len(b) |-> 0]
  /\ completionOrder' = <<>>
  /\ matchState' = IF b = <<>> THEN "resolved" ELSE "pending"
  /\ output' = <<>>
  /\ UNCHANGED <<analyzerVars, runVars>>

\* the search of n-gram i settles: matchAatSubjects and findTopHit run to
\* their end, then the await of Promise.all when this settles it
SearchSettles(i, outcome) ==
  /\ matchState # "idle"
  /\ i \in 1..Len(batch)
  /\ responses[i].kind = "pending"
  /\ LET found == findTopHit(batch[i], outcome)
         promises == [topHitPromises EXCEPT ![i] = found.promise]
         all == promiseAll(promises)
     IN /\ responses' = [responses EXCEPT ![i] = outcome]
        /\ topHitPromises' = promises
        /\ examined' = [examined EXCEPT ![i] = found.examined]
        /\ completionOrder' = Append(completionOrder, i)
        /\ matchState' = IF matchState # "pending" THEN matchState
                         ELSE IF all = "rejected" THEN "rejected"
                         ELSE IF all = "fulfilled" THEN "resolved"
                         ELSE "pending"
        /\ output' = IF matchState = "pending" /\ all = "fulfilled"
                     THEN pairWithHits(batch, valuesOf(promises))
                     ELSE output
  /\ UNCHANGED <<batch, searchCalls, analyzerVars, runVars>>

NextMatch ==
  \/ \E b \in Batches : MatchNgramsToAatSubjects(b)
  \/ \E i \in 1..MaxBatch, outcome \in SearchOutcomes : SearchSettles(i, outcome)

SpecMatch == InitMatch /\ [][NextMatch]_vars

\* ------------------------------------------- the script's run for a category
\* The script starts one such run per category; each has its own analyzer.
LastLength == 4     \* the run selects, matches and writes for n = 1..4

\* Math.round(0.01 * analyzer.numDocuments)
minFrequencyOfRun == (numDocuments + 50) \div 100

\* getPathPrefix(category)
getPathPrefix(cat) == IF cat = NoCategory THEN "out/all" ELSE "out/painting"

\* writeCSV(data, `${path}-${k}grams.csv`, {length: k, category}): one row
\* per pair, {...extras, ...ngram, ...aat}; spreading an undefined aat adds
\* no column
writeCSV(data, k) ==
  [prefix |-> getPathPrefix(category),
   length |-> k,
   rows |-> [i \in 1..Len(data) |->
               [length |-> k,
                category |-> category,
                ngram |-> data[i].ngram.ngram,
                frequency |-> data[i].ngram.frequency,
                aat |-> data[i].aatMatch]]]

\* analyzer.getTopUnigrams / Bigrams / Trigrams / Tetragrams as the script of
\* either variant calls it, followed by matchNgramsToAatSubjects up to its await
SelectAndMatch(k) ==
  LET all == getAllNgrams(tokenizedDocuments, k)
      t == getTallyOfNgrams(all)
      num == IF runVariant = "minFrequency" THEN minFrequencyOfRun
             ELSE DefaultThresholds[k][1]
      den == IF runVariant = "minFrequency" THEN 1 ELSE DefaultThresholds[k][2]
  IN \E sorted \in getSortedNgramFrequencies(t) :
       LET top == IF runVariant = "minFrequency"
                  THEN filterMinFrequency(sorted, num)
                  ELSE coverageSelect(sorted, desiredTotalFrequencyOf(num, den, Len(all)))
       IN /\ op' = runVariant
          /\ n' = k
          /\ arg' = num
          /\ argDen' = den
          /\ allNgrams' = all
          /\ tally' = t
          /\ sortedNgramFrequencies' = sorted
          /\ topNgramFrequencies' = top
          /\ batch' = top
          /\ searchCalls' = [i \in 1..Len(top) |-> 1]
          /\ responses' = [i \in 1..Len(top) |-> Pending]
          /\ topHitPromises' = [i \in 1..Len(top) |-> PendingPromise]
          /\ examined' = [i \in 1..Len(top) |-> 0]
          /\ completionOrder' = <<>>
          /\ matchState' = IF top = <<>> THEN "resolved" ELSE "pending"
          /\ output' = <<>>

InitRun ==
  /\ MatcherIdle
  /\ pathToData = ScriptDataFile
  /\ category \in CategoryFilters
  /\ stream = <<>>
  /\ tokenizedDocuments = <<>>
  /\ numDocuments = -1
  /\ phase = "counting"
  /\ failure = "none"
  /\ op = "none"
  /\ n = 0
  /\ arg = 0
  /\ argDen = 1
  /\ allNgrams = <<>>
  /\ tally = <<>>
  /\ sortedNgramFrequencies = <<>>
  /\ topNgramFrequencies = <<>>
  /\ runPhase = "creating"
  /\ runVariant \in {"minFrequency", "coverage"}
  /\ csvFiles = <<>>

\* the callback after await create(): the unigrams are selected and their
\* matching is started
RunStart ==
  /\ runPhase = "creating"
  /\ phase = "ready"
  /\ SelectAndMatch(1)
  /\ runPhase' = "matching"
  /\ UNCHANGED <<corpusVars, runVariant, csvFiles>>

\* the callback after await matchNgramsToAatSubjects(...) for length n: the
\* CSV of length n is written, then the next length is selected and its
\* matching started, or the run ends
RunContinue ==
  /\ runPhase = "matching"
  /\ matchState = "resolved"
  /\ csvFiles' = Append(csvFiles, writeCSV(output, n))
  /\ IF n < LastLength
     THEN /\ SelectAndMatch(n + 1)
          /\ UNCHANGED runPhase
     ELSE /\ runPhase' = "done"
          /\ UNCHANGED <<callVars, matcherVars>>
  /\ UNCHANGED <<corpusVars, runVariant>>

\* the catch block: create or matchNgramsToAatSubjects rejected; the error is
\* logged and the callback returns
RunCatch ==
  /\ \/ runPhase = "creating" /\ phase = "rejected"
     \/ runPhase = "matching" /\ matchState = "rejected"
  /\ runPhase' = "failed"
  /\ UNCHANGED <<analyzerVars, matcherVars, runVariant, csvFiles>>

NextRun ==
  \/ LineCountResolves
  \/ LineCountRejects
  \/ \E kind \in {"open", "parse"} : StreamError(kind)
  \/ \E artwork \in Records(pathToData) : OnData(artwork)
  \/ OnEnd
  \/ CreateResolves
  \/ RunStart
  \/ \E i \in 1..Len(batch), outcome \in SearchOutcomes : SearchSettles(i, outcome)
  \/ RunContinue
  \/ RunCatch

SpecRun == InitRun /\ [][NextRun]_vars

\* ====================================================== claims C1 - C5
Called == op # "none"

RECURSIVE SumOfCounts(_, _)
\* the sum of the numeric counts of the entries i.. of a tally
SumOfCounts(t, i) ==
  IF i > Len(t) THEN 0
  ELSE (IF t[i].count.kind = "number" THEN t[i].count.num ELSE 0) + SumOfCounts(t, i + 1)

AllCountsAreNumbers(t) == \A i \in 1..Len(t) : t[i].count.kind = "number"

\* C1: after every call, the counts of the tally are numbers that sum to the
\* number of n-grams extracted, whatever the tokens are.
C1_TallySumsToTotal ==
  Called => /\ AllCountsAreNumbers(tally)
            /\ SumOfCounts(tally, 1) = Len(allNgrams)

RECURSIVE ExpectedTotal(_, _, _)
\* the sum over the documents d.. of max(0, L - k + 1)
ExpectedTotal(docs, d, k) ==
  IF d > Len(docs) THEN 0
  ELSE Max(0, Len(docs[d]) - k + 1) + ExpectedTotal(docs, d + 1, k)

\* the number of n-grams of the documents before document d
OffsetOfDocument(docs, d, k) == ExpectedTotal(SubSeq(docs, 1, d - 1), 1, k)

\* C2: the flat list holds, for each document of length L >= n, one n-gram
\* per offset 0..L-n, in document order then offset order, each being the n
\* consecutive tokens at that offset; shorter documents give nothing; the
\* total is the sum over the documents of max(0, L - n + 1).
C2_NgramsPerOffset ==
  Called =>
    /\ Len(allNgrams) = ExpectedTotal(tokenizedDocuments, 1, n)
    /\ \A i \in 1..Len(allNgrams) : Len(allNgrams[i]) = n
    /\ \A d \in 1..Len(tokenizedDocuments) :
         \A o \in 0..(Len(tokenizedDocuments[d]) - n) :
           LET g == allNgrams[OffsetOfDocument(tokenizedDocuments, d, n) + o + 1]
           IN \A j \in 1..n : g[j] = tokenizedDocuments[d][o + j]

\* a call with n = 2 on a corpus holding a document shorter than n and a
\* document with two offsets
C2_Witness ==
  /\ Called
  /\ n = 2
  /\ \E d \in 1..Len(tokenizedDocuments) : Len(tokenizedDocuments[d]) < n
  /\ \E d \in 1..Len(tokenizedDocuments) : Len(tokenizedDocuments[d]) = n + 1
  /\ Len(allNgrams) >= 2

\* the corpus of the concrete scenarios
ScenarioCorpus ==
  << <<"oil", "on", "canvas">>, <<"oil", "on", "board">>, <<"acrylic", "on", "canvas">> >>

NgramsOf(list) == {list[i].ngram : i \in 1..Len(list)}

\* C3: the minimum-count policy returns exactly the pairs of the sorted tally
\* with a frequency >= floor, in sorted order, none below the floor; with
\* floor 0 it returns the whole tally, one pair per distinct n-gram; on the
\* scenario corpus with n = 1 and floor 2 it returns on, oil, canvas, "on" first.
C3_MinimumCountSelection ==
  op = "minFrequency" =>
    /\ topNgramFrequencies =
         SelectSeq(sortedNgramFrequencies,
                   LAMBDA nf : nf.frequency.kind = "number" /\ nf.frequency.num >= arg)
    /\ \A i \in 1..Len(topNgramFrequencies) :
         /\ topNgramFrequencies[i].frequency.kind = "number"
         /\ topNgramFrequencies[i].frequency.num >= arg
    /\ (arg = 0 =>
          /\ topNgramFrequencies = sortedNgramFrequencies
          /\ NgramsOf(topNgramFrequencies) = {join(allNgrams[i]) : i \in 1..Len(allNgrams)})
    /\ (tokenizedDocuments = ScenarioCorpus /\ n = 1 /\ arg = 2 =>
          /\ NgramsOf(topNgramFrequencies) = {<<"on">>, <<"oil">>, <<"canvas">>}
          /\ topNgramFrequencies[1] = [ngram |-> <<"on">>, frequency |-> Num(3)])

RECURSIVE ClaimedPrefixLength(_, _, _, _)
\* the number of leading entries whose preceding frequencies sum to a number
\* that is <= target
ClaimedPrefixLength(sorted, i, sumBefore, target) ==
  IF i > Len(sorted) \/ sumBefore > target THEN i - 1
  ELSE IF sorted[i].frequency.kind # "number" THEN i
  ELSE ClaimedPrefixLength(sorted, i + 1, sumBefore + sorted[i].frequency.num, target)

\* C4: the coverage policy returns the prefix of the sorted tally made of the
\* entries whose preceding frequencies sum to at most target = floor(theta*T);
\* on the scenario corpus with n = 2 and theta = 1/2 it returns the two
\* bigrams "oil on" and "on canvas", each with frequency 2.
C4_CoveragePrefix ==
  op = "coverage" =>
    LET target == (arg * Len(allNgrams)) \div argDen
    IN /\ topNgramFrequencies =
            SubSeq(sortedNgramFrequencies, 1,
                   ClaimedPrefixLength(sortedNgramFrequencies, 1, 0, target))
       /\ (tokenizedDocuments = ScenarioCorpus /\ n = 2 /\ 2 * arg = argDen =>
             /\ Len(topNgramFrequencies) = 2
             /\ \A i \in 1..Len(topNgramFrequencies) :
                  /\ topNgramFrequencies[i].ngram \in
                       {<<"oil", " ", "on">>, <<"on", " ", "canvas">>}
                  /\ topNgramFrequencies[i].frequency = Num(2))

\* C5: an empty tally gives an empty list under both policies; the coverage
\* policy with theta = 0 gives the empty list; the minimum-count policy with
\* floor 0 gives the full list.
C5_DegenerateInputs ==
  /\ (Called /\ tally = <<>> => topNgramFrequencies = <<>>)
  /\ (op = "coverage" /\ arg = 0 => topNgramFrequencies = <<>>)
  /\ (op = "minFrequency" /\ arg = 0 => Len(topNgramFrequencies) = Len(tally))

\* ===================================================== claims C6 - C10
Indices == 1..Len(batch)
Fulfilled(i) == topHitPromises[i].state = "fulfilled"
SearchFailed(i) ==
  \/ responses[i].kind = "throws"
  \/ responses[i].kind = "returns" /\ responses[i].statusCode # 200

\* C6: a search that throws or returns a non-success status does not fail
\* the batch: the batch is never rejected, it resolves with one pair per
\* n-gram, the pair of a failed search without a match and the others with
\* the match their own search produced, and no search is issued twice.
C6_SearchFailureTolerated ==
  /\ matchState # "rejected"
  /\ \A i \in Indices : searchCalls[i] <= 1
  /\ (matchState = "resolved" =>
        /\ Len(output) = Len(batch)
        /\ \A i \in Indices :
             IF SearchFailed(i) THEN ~output[i].aatMatch.defined
             ELSE output[i].aatMatch = aatMatchOf(topHitPromises[i].value))

\* C7: once the batch has resolved, the output is as long as the input and
\* its i-th pair is the i-th n-gram with the match of the i-th search,
\* whatever the order in which the searches settled.
C7_InputOrderPreserved ==
  matchState = "resolved" =>
    /\ Len(output) = Len(batch)
    /\ \A i \in Indices :
         /\ output[i].ngram = batch[i]
         /\ output[i].aatMatch = aatMatchOf(topHitPromises[i].value)

\* a resolved batch whose second search settled first and whose two matches differ
C7_Witness ==
  /\ matchState = "resolved"
  /\ Len(batch) = 2
  /\ completionOrder = <<2, 1>>
  /\ output[1].aatMatch # output[2].aatMatch
  /\ output[1].aatMatch.defined

Classifies(term, hit) == getMatchQuality(term, hit) \in {"exact", "synonym"}

\* C8: for every search that returned a hit list (of at most 5 hits),
\* findTopHit is fulfilled; its value is the first hit in rank order that
\* classifies as exact or synonym, tagged with that class, and no later hit
\* is classified; when no hit classifies the value is undefined.
C8_FirstClassifyingHit ==
  \A i \in Indices :
    (responses[i].kind = "returns" /\ responses[i].hasHits) =>
      LET hits == responses[i].hits
          term == batch[i].ngram
          ranks == {j \in 1..Len(hits) : Classifies(term, hits[j])}
      IN /\ Len(hits) <= SearchSize
         /\ Fulfilled(i)
         /\ IF ranks = {}
            THEN /\ topHitPromises[i].value = NoTopHit
                 /\ examined[i] = Len(hits)
            ELSE LET r == CHOOSE j \in ranks : \A k \in ranks : j <= k
                 IN /\ topHitPromises[i].value =
                         TopHit(hits[r], getMatchQuality(term, hits[r]))
                    /\ examined[i] = r

\* a fulfilled search whose chosen hit is followed by another hit that classifies
C8_Witness ==
  \E i \in Indices :
    /\ Fulfilled(i)
    /\ topHitPromises[i].value.defined
    /\ \E j \in (examined[i] + 1)..Len(responses[i].hits) :
         Classifies(batch[i].ngram, responses[i].hits[j])

NormalizedTerms(hit) == {normalize(hit._source.terms[k]) : k \in 1..Len(hit._source.terms)}
NameEquals(term, hit) == normalize(term) = normalize(hit._source.name)
ListsAsTerm(term, hit) == normalize(term) \in NormalizedTerms(hit)

C10_TagSoundness ==
  \A i \in Indices :
    (Fulfilled(i) /\ topHitPromises[i].value.defined) =>
      LET term == toLowerCase(trim(batch[i].ngram))
          chosen == topHitPromises[i].value.hit
          name == toLowerCase(trim(chosen._source.name))
          quality == topHitPromises[i].value.matchQuality
      IN /\ quality \in {"exact", "synonym"}
         /\ chosen \in {responses[i].hits[j] : j \in 1..Len(responses[i].hits)}
         /\ (quality = "exact" => term = name)
         /\ (quality = "synonym" =>
               /\ \E k \in 1..Len(chosen._source.terms) :
                    term = toLowerCase(trim(chosen._source.terms[k]))
               /\ term # name)

\* a result tagged synonym whose query and term differ before normalization
C10_Witness ==
  \E i \in Indices :
    /\ Fulfilled(i)
    /\ topHitPromises[i].value.matchQuality = "synonym"
    /\ batch[i].ngram \notin
         {topHitPromises[i].value.hit._source.terms[k] :
            k \in 1..Len(topHitPromises[i].value.hit._source.terms)}


\* the position in the flat list of the first occurrence of an n-gram string
FirstEncounter(key) ==
  CHOOSE i \in 1..Len(allNgrams) :
    /\ join(allNgrams[i]) = key
    /\ \A j \in 1..(i - 1) : join(allNgrams[j]) # key

\* C11: in the sorted tally, entries of equal frequency appear in
\* first-encountered order: of two n-grams with the same frequency, the one
\* that occurs first in the flat list comes first.
C11_TiesInEncounterOrder ==
  Called =>
    \A i, j \in 1..Len(sortedNgramFrequencies) :
      (i < j /\ sortedNgramFrequencies[i].frequency = sortedNgramFrequencies[j].frequency)
        => FirstEncounter(sortedNgramFrequencies[i].ngram)
             < FirstEncounter(sortedNgramFrequencies[j].ngram)

\* C12: under either policy the returned list is in non-increasing frequency
\* order and no n-gram string appears in it twice.
C12_NonIncreasingAndDistinct ==
  Called =>
    \A i, j \in 1..Len(topNgramFrequencies) :
      i < j =>
        /\ topNgramFrequencies[i].frequency.kind = "number"
        /\ topNgramFrequencies[j].frequency.kind = "number"
        /\ topNgramFrequencies[i].frequency.num >= topNgramFrequencies[j].frequency.num
        /\ topNgramFrequencies[i].ngram # topNgramFrequencies[j].ngram

RECURSIVE RetainedDocuments(_, _, _)
\* the tokenized documents of the records i.. of a stream that have a
\* non-empty medium and, under a filter, exactly the filter's category
RetainedDocuments(records, i, filter) ==
  IF i > Len(records) THEN <<>>
  ELSE (IF /\ records[i].hasMedium
           /\ records[i].medium # <<>>
           /\ (filter = NoCategory \/ records[i].category = filter)
        THEN <<tokenize(toLowerCase(records[i].medium))>>
        ELSE <<>>) \o RetainedDocuments(records, i + 1, filter)

\* C13: a record is retained exactly when its medium is present and
\* non-empty and either no category filter is set or its category equals the
\* filter; once the stream has ended the corpus holds one tokenized document
\* per retained record, in stream order.
C13_RetentionRule ==
  phase \in {"ended", "ready"} =>
    tokenizedDocuments = RetainedDocuments(stream, 1, category)

\* a filtered load that ended after a retained record, a record of another
\* category and a record without a usable medium
C13_Witness ==
  /\ phase = "ready"
  /\ category # NoCategory
  /\ \E i \in 1..Len(stream) : stream[i].medium # <<>> /\ stream[i].category # category
  /\ \E i \in 1..Len(stream) : ~stream[i].hasMedium \/ stream[i].medium = <<>>
  /\ Len(tokenizedDocuments) >= 1

\* C14: when the load fails, because the source cannot be opened or a record
\* cannot be parsed, create rejects: it does not stay pending and does not
\* resolve with a partial corpus.
C14_LoadFailureRejects ==
  failure # "none" => phase = "rejected"

\* C17: create resolves only after the "end" event; when it has resolved the
\* corpus holds every retained record of the stream and numDocuments is the
\* length of the corpus, and afterwards no record is delivered or appended.
C17_ResolvesAfterEnd ==
  /\ [](phase = "ready" =>
          /\ numDocuments = Len(tokenizedDocuments)
          /\ tokenizedDocuments = RetainedDocuments(stream, 1, category))
  /\ [][phase' = "ready" => phase \in {"ended", "ready"}]_vars
  /\ [][phase = "ready" =>
          /\ phase' = "ready"
          /\ stream' = stream
          /\ tokenizedDocuments' = tokenizedDocuments
          /\ numDocuments' = numDocuments]_vars

\* create has resolved after a stream of three records, one of them dropped
C17_Witness ==
  /\ phase = "ready"
  /\ Len(stream) = 3
  /\ numDocuments = 2

IsPrefix(s, t) == Len(s) <= Len(t) /\ s = SubSeq(t, 1, Len(s))

\* what the coverage policy returns for the threshold num / ThetaDen on the
\* sorted tally of the current call
CoverageResultFor(num) ==
  coverageSelect(sortedNgramFrequencies,
                 desiredTotalFrequencyOf(num, ThetaDen, Len(allNgrams)))

\* C16: on a fixed corpus and n, the list the coverage policy returns for
\* theta1 is a prefix of the list it returns for any theta2 >= theta1.
C16_CoverageMonotonic ==
  op = "coverage" =>
    \A num2 \in 0..ThetaDen :
      arg * ThetaDen <= num2 * argDen
        => IsPrefix(topNgramFrequencies, CoverageResultFor(num2))

\* a coverage call whose non-empty result is strictly shorter than the result
\* for theta = 1
C16_Witness ==
  /\ op = "coverage"
  /\ arg < argDen
  /\ Len(topNgramFrequencies) > 0
  /\ Len(topNgramFrequencies) < Len(CoverageResultFor(ThetaDen))

RECURSIVE SumOfFrequencies(_, _)
\* the sum of the numeric frequencies of the entries i.. of a list
SumOfFrequencies(list, i) ==
  IF i > Len(list) THEN 0
  ELSE (IF list[i].frequency.kind = "number" THEN list[i].frequency.num ELSE 0)
         + SumOfFrequencies(list, i + 1)

\* C18: the frequencies of the list the coverage policy returns are numbers
\* whose sum S is at least target = floor(theta * T), and S minus the last
\* returned frequency is at most target.
C18_CoverageReached ==
  op = "coverage" =>
    LET target == (arg * Len(allNgrams)) \div argDen
        S == SumOfFrequencies(topNgramFrequencies, 1)
        last == topNgramFrequencies[Len(topNgramFrequencies)]
    IN /\ \A i \in 1..Len(topNgramFrequencies) :
            topNgramFrequencies[i].frequency.kind = "number"
       /\ S >= target
       /\ Len(topNgramFrequencies) > 0 => S - last.frequency.num <= target

\* C19: once loaded the corpus is read-only: no call of getTopNgrams or of a
\* convenience method changes tokenizedDocuments or numDocuments, so a call
\* repeated with the same arguments extracts the same n-grams, builds the
\* same tally and returns the same list.
C19_CorpusReadOnly ==
  /\ [][op' # "none" =>
          /\ tokenizedDocuments' = tokenizedDocuments
          /\ numDocuments' = numDocuments]_vars
  /\ [][(op # "none" /\ op' = op /\ n' = n /\ arg' = arg /\ argDen' = argDen) =>
          /\ allNgrams' = allNgrams
          /\ tally' = tally
          /\ topNgramFrequencies' = topNgramFrequencies]_vars

\* a call has returned a non-empty list from a corpus of several documents
C19_Witness ==
  /\ op # "none"
  /\ Len(tokenizedDocuments) >= 2
  /\ numDocuments = Len(tokenizedDocuments)
  /\ Len(topNgramFrequencies) >= 1

\* C15: in the run for one category, a vocabulary lookup that fails for one
\* selected n-gram does not abort the run: once the analyzer is loaded the
\* run never ends in its catch block, the CSV of a length whose searches
\* have all settled is written with one row per selected n-gram, and the run
\* ends with the four CSV files of n = 1..4.
C15_FailedLookupDoesNotAbortRun ==
  /\ phase = "ready" => runPhase # "failed"
  /\ \A k \in 1..Len(csvFiles) : csvFiles[k].length = k
  /\ runPhase = "done" =>
       /\ Len(csvFiles) = LastLength
       /\ Len(csvFiles[LastLength].rows) = Len(topNgramFrequencies)

====
